---- MODULE Spec2Model ----
(***************************************************************************)
(* Books API (0x0703/books-api): the request pipeline of src/routes/books.js *)
(* over the books table of database.sql.  Every store statement a handler  *)
(* awaits is one atomic step; the handlers of concurrent requests          *)
(* interleave between their statements.                                    *)
(***************************************************************************)
EXTENDS Integers, Sequences, FiniteSets, TLC

(***************************************************************************)
(* JSON / SQL values.  Every value is a tagged tuple, so that values of    *)
(* different types can be compared.  A string is the sequence of its       *)
(* characters; a query-string keyword (sortBy, sortOrder, inStock) is a    *)
(* text, compared as a whole.  A price is counted in thousandths of the    *)
(* currency unit.                                                          *)
(***************************************************************************)
Undefined == <<"undefined">>
Null      == <<"null">>
Str(s)    == <<"string", s>>
Txt(s)    == <<"text", s>>
Num(n)    == <<"number", n>>
Bool(b)   == <<"boolean", b>>
Obj(r)    == <<"object", r>>
Arr(s)    == <<"array", s>>

IsStr(v)  == v[1] = "string"
IsTxt(v)  == v[1] = "text"
IsNum(v)  == v[1] = "number"
IsBool(v) == v[1] = "boolean"
Val(v)    == v[2]

\* Model bounds.
MaxId    == 2
MaxClock == 1

\* Limits of the validation rules and of the schema.
TitleMaxLen  == 255
AuthorMaxLen == 255
IsbnMinLen   == 10
IsbnMaxLen   == 20
YearMin      == 1000
CurrentYear  == 2026
GenreMaxLen  == 100
PagesMin     == 1
PagesMax     == 50000
DescMaxLen   == 5000
PriceMax     == 1000000
IdMin        == 1
PageMin      == 1
LimitMin     == 1
LimitMax     == 100
QMinLen      == 2
QMaxLen      == 100
DefaultPage  == 1
DefaultLimit == 10

Fields == <<"title", "author", "isbn", "publication_year", "genre", "pages",
            "description", "price", "in_stock">>
FieldSet == {Fields[i] : i \in 1..Len(Fields)}

(***************************************************************************)
(* Strings                                                                 *)
(***************************************************************************)
Whitespace == {" "}
Digits == {"0", "1", "2", "3", "4", "5", "6", "7", "8", "9"}

RECURSIVE TrimLeft(_)
TrimLeft(s) ==
    IF s # <<>> /\ Head(s) \in Whitespace THEN TrimLeft(Tail(s)) ELSE s

RECURSIVE TrimRight(_)
TrimRight(s) ==
    IF s # <<>> /\ s[Len(s)] \in Whitespace
    THEN TrimRight(SubSeq(s, 1, Len(s) - 1)) ELSE s

\* toString of express-validator: undefined and null become the empty string.
toString(v) == IF IsStr(v) THEN Val(v) ELSE <<>>

\* .trim(): the sanitizer replaces the field by its trimmed string.
trim(v) == Str(TrimRight(TrimLeft(toString(v))))

Lower(c) ==
    CASE c = "A" -> "a" [] c = "B" -> "b" [] c = "G" -> "g" [] c = "X" -> "x"
      [] OTHER -> c
LowerStr(s) == [i \in 1..Len(s) |-> Lower(s[i])]

\* ILIKE '%term%': case-insensitive substring match; NULL never matches.
ILike(v, term) ==
    /\ IsStr(v)
    /\ \E i \in 0..Len(Val(v)) :
         /\ i + Len(term) <= Len(Val(v))
         /\ LowerStr(SubSeq(Val(v), i + 1, i + Len(term))) = LowerStr(term)

(***************************************************************************)
(* Validation layer (src/middleware/validation.js)                         *)
(***************************************************************************)
\* The validators of express-validator, on the values the model draws.
notEmpty(v) == toString(v) # <<>>
isLength(v, min, max) == Len(toString(v)) >= min /\ Len(toString(v)) <= max
matchesIsbn(v) ==
    /\ toString(v) # <<>>
    /\ \A i \in 1..Len(toString(v)) : toString(v)[i] \in Digits \cup {"-", "X", "x"}
isInt(v, min, max) == IsNum(v) /\ Val(v) >= min /\ Val(v) <= max
isIntMin(v, min) == IsNum(v) /\ Val(v) >= min
\* A price is counted in thousandths: the bounds 0 and PriceMax scale with it.
isFloat(v, min, max) == IsNum(v) /\ Val(v) >= min * 1000 /\ Val(v) <= max * 1000
BooleanStrings == {"true", "false", "1", "0"}
isBoolean(v) == IsBool(v) \/ (IsTxt(v) /\ Val(v) \in BooleanStrings)
isIn(v, allowed) == IsTxt(v) /\ Val(v) \in allowed

\* One failed validator: the field and the rule that rejected it.
Err(field, rule, ok) == IF ok THEN <<>> ELSE <<[field |-> field, rule |-> rule]>>

\* body('title') / body('author') of createBookValidation: always run.
requiredString(field, v, max) ==
    Err(field, "notEmpty", notEmpty(trim(v)))
      \o Err(field, "isLength", isLength(trim(v), 1, max))

\* body('title') / body('author') of updateBookValidation: .optional() skips
\* undefined only.
optionalString(field, v, max) ==
    IF v = Undefined THEN <<>> ELSE requiredString(field, v, max)

isbnRule(v) ==
    IF v \in {Undefined, Null} THEN <<>>
    ELSE Err("isbn", "isLength", isLength(trim(v), IsbnMinLen, IsbnMaxLen))
           \o Err("isbn", "matches", matchesIsbn(trim(v)))

yearRule(v) ==
    IF v \in {Undefined, Null} THEN <<>>
    ELSE Err("publication_year", "isInt", isInt(v, YearMin, CurrentYear + 1))

boundedText(field, v, max) ==
    IF v \in {Undefined, Null} THEN <<>>
    ELSE Err(field, "isLength", isLength(trim(v), 0, max))

pagesRule(v) ==
    IF v \in {Undefined, Null} THEN <<>>
    ELSE Err("pages", "isInt", isInt(v, PagesMin, PagesMax))

priceRule(v) ==
    IF v \in {Undefined, Null} THEN <<>>
    ELSE Err("price", "isFloat", isFloat(v, 0, PriceMax))

inStockRule(v) ==
    IF v = Undefined THEN <<>>
    ELSE Err("in_stock", "isBoolean", isBoolean(v))

idRule(id) == Err("id", "isInt", isIntMin(id, IdMin))

\* The rules shared by the create and the update chains (isbn .. in_stock).
optionalRules(b) ==
    isbnRule(b.isbn) \o yearRule(b.publication_year)
      \o boundedText("genre", b.genre, GenreMaxLen) \o pagesRule(b.pages)
      \o boundedText("description", b.description, DescMaxLen)
      \o priceRule(b.price) \o inStockRule(b.in_stock)

\* The sanitizers write the trimmed strings back into req.body.  A chain that
\* .optional() skips leaves its field as it was.
sanitizeNullable(v) == IF v \in {Undefined, Null} THEN v ELSE trim(v)
sanitizeOptional(v) == IF v = Undefined THEN v ELSE trim(v)

\* Faulty variant: the isbn chain of a create without its .trim().
createBookSanitized_IsbnAsSent(b) ==
    [b EXCEPT !.title = trim(b.title), !.author = trim(b.author),
              !.genre = sanitizeNullable(b.genre),
              !.description = sanitizeNullable(b.description)]

createBookSanitized(b) ==
    [b EXCEPT !.title = trim(b.title), !.author = trim(b.author),
              !.isbn = sanitizeNullable(b.isbn),
              !.genre = sanitizeNullable(b.genre),
              !.description = sanitizeNullable(b.description)]

updateBookSanitized(b) ==
    [b EXCEPT !.title = sanitizeOptional(b.title),
              !.author = sanitizeOptional(b.author),
              !.isbn = sanitizeNullable(b.isbn),
              !.genre = sanitizeNullable(b.genre),
              !.description = sanitizeNullable(b.description)]

createBookValidation(r) ==
    requiredString("title", r.body.title, TitleMaxLen)
      \o requiredString("author", r.body.author, AuthorMaxLen)
      \o optionalRules(r.body)

updateBookValidation(r) ==
    idRule(r.id)
      \o optionalString("title", r.body.title, TitleMaxLen)
      \o optionalString("author", r.body.author, AuthorMaxLen)
      \o optionalRules(r.body)

idParamValidation(r) == idRule(r.id)

SortFields == {"id", "title", "author", "publication_year", "price", "created_at"}
SortOrders == {"ASC", "DESC", "asc", "desc"}

\* Faulty variant: the list rules without the one on sortBy.
listBooksValidation_NoSortBy(r) ==
    (IF r.query.page = Undefined THEN <<>>
     ELSE Err("page", "isInt", isIntMin(r.query.page, PageMin)))
      \o (IF r.query.limit = Undefined THEN <<>>
          ELSE Err("limit", "isInt", isInt(r.query.limit, LimitMin, LimitMax)))
      \o (IF r.query.sortOrder = Undefined THEN <<>>
          ELSE Err("sortOrder", "isIn", isIn(r.query.sortOrder, SortOrders)))
      \o (IF r.query.inStock = Undefined THEN <<>>
          ELSE Err("inStock", "isBoolean", isBoolean(r.query.inStock)))

listBooksValidation(r) ==
    (IF r.query.page = Undefined THEN <<>>
     ELSE Err("page", "isInt", isIntMin(r.query.page, PageMin)))
      \o (IF r.query.limit = Undefined THEN <<>>
          ELSE Err("limit", "isInt", isInt(r.query.limit, LimitMin, LimitMax)))
      \o (IF r.query.sortBy = Undefined THEN <<>>
          ELSE Err("sortBy", "isIn", isIn(r.query.sortBy, SortFields)))
      \o (IF r.query.sortOrder = Undefined THEN <<>>
          ELSE Err("sortOrder", "isIn", isIn(r.query.sortOrder, SortOrders)))
      \o (IF r.query.inStock = Undefined THEN <<>>
          ELSE Err("inStock", "isBoolean", isBoolean(r.query.inStock)))

searchValidation(r) ==
    Err("q", "notEmpty", notEmpty(trim(r.query.q)))
      \o Err("q", "isLength", isLength(trim(r.query.q), QMinLen, QMaxLen))

\* Faulty variant: validate that never looks at the result of the rules.
validate_Skipped(errors) == [next |-> TRUE, status |-> 0, details |-> <<>>]

\* validate: any failed rule answers 400 with the whole list; else next().
validate(errors) ==
    IF errors # <<>>
    THEN [next |-> FALSE, status |-> 400, details |-> errors]
    ELSE [next |-> TRUE, status |-> 0, details |-> <<>>]

(***************************************************************************)
(* Error taxonomy (src/middleware/errorHandler.js)                         *)
(***************************************************************************)
ApiError(statusCode) == [code |-> "", statusCode |-> statusCode]
notFound == ApiError(404)
conflict == ApiError(409)
DatabaseError(code) == [code |-> code, statusCode |-> 0]

\* The errors pool.query rejects with, besides the unique_violation the books
\* table itself raises: what kind of failure it is, and the code it carries.
\* The pool gives up acquiring a connection after connectionTimeoutMillis
\* with an error that carries no code, or with the socket's ETIMEDOUT.
StoreFailures ==
    { [kind |-> "foreign_key_violation", code |-> "23503"],
      [kind |-> "invalid_text_representation", code |-> "22P02"],
      [kind |-> "connection_refused", code |-> "ECONNREFUSED"],
      [kind |-> "connection_timeout", code |-> ""],
      [kind |-> "connection_timeout", code |-> "ETIMEDOUT"],
      [kind |-> "unclassified", code |-> "XX000"] }

\* The error a handler caught, as its catch block holds it.
Caught(f) == <<"error", f.kind>>

\* Faulty variant: the error boundary without its unique_violation case.
errorHandler_NoUniqueCase(err) ==
    CASE err.code = "23503" -> 400
      [] err.code = "22P02" -> 400
      [] err.code = "ECONNREFUSED" -> 503
      [] err.code \notin {"23503", "22P02", "ECONNREFUSED"}
           /\ err.statusCode # 0 -> err.statusCode
      [] OTHER -> 500

errorHandler(err) ==
    CASE err.code = "23505" -> 409
      [] err.code = "23503" -> 400
      [] err.code = "22P02" -> 400
      [] err.code = "ECONNREFUSED" -> 503
      [] err.code \notin {"23505", "23503", "22P02", "ECONNREFUSED"}
           /\ err.statusCode # 0 -> err.statusCode
      [] OTHER -> 500

(***************************************************************************)
(* The books table (src/database.sql) and the repository                   *)
(* (src/src/models/Book.js), as functions of the table.                    *)
(***************************************************************************)
\* JavaScript truthiness of a value.
Truthy(v) ==
    CASE v = Undefined -> FALSE
      [] v = Null -> FALSE
      [] IsStr(v) -> Val(v) # <<>>
      [] IsTxt(v) -> Val(v) # ""
      [] IsNum(v) -> Val(v) # 0
      [] IsBool(v) -> Val(v)
      [] OTHER -> TRUE

\* A parameter bound to a statement: undefined is sent as NULL.
Column(v) == IF v = Undefined THEN Null ELSE v

\* price DECIMAL(10, 2): rounded to two fractional digits, half away from zero.
Decimal2(v) == IF IsNum(v) THEN Num(((Val(v) + 5) \div 10) * 10) ELSE v

\* Faulty variant: the isbn column without its UNIQUE constraint.
UniqueViolation_Dropped(t, id, isbn) == FALSE

\* isbn VARCHAR(20) UNIQUE: another row already holds this non-null isbn.
UniqueViolation(t, id, isbn) ==
    isbn # Null /\ \E j \in DOMAIN t \ {id} : t[j].isbn = isbn

\* The row an INSERT stores: both timestamps default to CURRENT_TIMESTAMP.
InsertRow(id, params, ts) ==
    [id |-> id,
     title |-> Column(params.title), author |-> Column(params.author),
     isbn |-> Column(params.isbn),
     publication_year |-> Column(params.publication_year),
     genre |-> Column(params.genre), pages |-> Column(params.pages),
     description |-> Column(params.description),
     price |-> Decimal2(Column(params.price)),
     in_stock |-> Column(params.in_stock),
     created_at |-> ts, updated_at |-> ts]

\* INSERT INTO books ... RETURNING *
Insert(t, id, params, ts) ==
    IF UniqueViolation(t, id, Column(params.isbn))
    THEN [err |-> "23505", rows |-> <<>>, table |-> t]
    ELSE [err |-> "", rows |-> <<InsertRow(id, params, ts)>>,
          table |-> (id :> InsertRow(id, params, ts)) @@ t]

\* The row an UPDATE ... SET stores: the named columns take the parameters,
\* the BEFORE UPDATE trigger refreshes updated_at, the rest is kept.
UpdateRow(row, set, bookData, ts) ==
    [f \in DOMAIN row |->
        IF f \in set
        THEN (IF f = "price" THEN Decimal2(Column(bookData[f])) ELSE Column(bookData[f]))
        ELSE IF f = "updated_at" THEN ts ELSE row[f]]

\* UPDATE books SET ... WHERE id = $n RETURNING *
Update(t, id, set, bookData, ts) ==
    IF id \notin DOMAIN t THEN [err |-> "", rows |-> <<>>, table |-> t]
    ELSE IF "isbn" \in set /\ UniqueViolation(t, id, Column(bookData.isbn))
    THEN [err |-> "23505", rows |-> <<>>, table |-> t]
    ELSE [err |-> "", rows |-> <<UpdateRow(t[id], set, bookData, ts)>>,
          table |-> [t EXCEPT ![id] = UpdateRow(t[id], set, bookData, ts)]]

\* DELETE FROM books WHERE id = $1 RETURNING id
\* Faulty variant: a DELETE that reports the row and leaves it in place.
Delete_KeepsRow(t, id) == [rowCount |-> IF id \in DOMAIN t THEN 1 ELSE 0, table |-> t]

Delete(t, id) ==
    [rowCount |-> IF id \in DOMAIN t THEN 1 ELSE 0,
     table |-> [j \in DOMAIN t \ {id} |-> t[j]]]

\* result.rows[0] || null
findById(t, id) == IF Val(id) \in DOMAIN t THEN Obj(t[Val(id)]) ELSE Null

findByIsbn(t, isbn) ==
    IF \E j \in DOMAIN t : t[j].isbn = isbn
    THEN Obj(t[CHOOSE j \in DOMAIN t : t[j].isbn = isbn])
    ELSE Null

\* Faulty variant: in_stock without its default.
createParams_NoDefault(bookData) == bookData

\* Book.create: the nine columns, in_stock defaulting to true.
createParams(bookData) ==
    [f \in FieldSet |->
        IF f = "in_stock" /\ bookData[f] = Undefined THEN Bool(TRUE) ELSE bookData[f]]

\* Faulty variant: the bound parameters are returned, not result.rows[0].
create_Echo(t, id, bookData, ts) ==
    LET result == Insert(t, id, createParams(bookData), ts) IN
    IF result.err # "" THEN result
    ELSE [result EXCEPT !.rows =
            <<[f \in DOMAIN result.rows[1] |->
                 IF f \in FieldSet THEN Column(createParams(bookData)[f])
                 ELSE result.rows[1][f]]>>]

create(t, id, bookData, ts) == Insert(t, id, createParams(bookData), ts)

\* Faulty variant: != null for !== undefined.
updates_NonNull(bookData) == {f \in FieldSet : bookData[f] \notin {Undefined, Null}}

\* Book.update: the SET clause names the fields whose value is not undefined.
updates(bookData) == {f \in FieldSet : bookData[f] # Undefined}

\* Faulty variant: rowCount >= 0 for rowCount > 0.
delete_AlwaysTrue(t, id) ==
    [rowCount |-> Delete(t, Val(id)).rowCount + 1, table |-> Delete(t, Val(id)).table]

\* Book.delete: true iff a row was removed.
delete(t, id) == Delete(t, Val(id))

(***************************************************************************)
(* Book.findAll and Book.search                                            *)
(***************************************************************************)
\* The options the list handler builds from req.query.
listOptions(q) ==
    [page |-> IF IsNum(q.page) /\ Val(q.page) # 0 THEN Val(q.page) ELSE DefaultPage,
     limit |-> IF IsNum(q.limit) /\ Val(q.limit) # 0 THEN Val(q.limit) ELSE DefaultLimit,
     sortBy |-> IF Truthy(q.sortBy) THEN Val(q.sortBy) ELSE "created_at",
     sortOrder |-> IF Truthy(q.sortOrder) THEN Val(q.sortOrder) ELSE "DESC",
     genre |-> q.genre,
     author |-> q.author,
     inStock |-> IF q.inStock # Undefined THEN Bool(q.inStock = Txt("true"))
                 ELSE Undefined]

\* WHERE: the filters that are present, ANDed.
whereClause(row, o) ==
    /\ Truthy(o.genre) => ILike(row.genre, Val(o.genre))
    /\ Truthy(o.author) => ILike(row.author, Val(o.author))
    /\ o.inStock # Undefined => row.in_stock = o.inStock

allowedSortFields == {"id", "title", "author", "publication_year", "price", "created_at"}
toUpperCase(s) == CASE s = "asc" -> "ASC" [] s = "desc" -> "DESC" [] OTHER -> s
safeSortBy(sortBy) == IF sortBy \in allowedSortFields THEN sortBy ELSE "created_at"
safeSortOrder(sortOrder) == IF toUpperCase(sortOrder) = "ASC" THEN "ASC" ELSE "DESC"

\* Faulty variant: pages counted from zero.
offset_FromZero(page, limit) == page * limit

offset(page, limit) == (page - 1) * limit

\* ORDER BY: the order of characters, of strings and of column values.  NULL
\* sorts after every value.
Alphabet == <<" ", "-", "0", "1", "2", "3", "4", "5", "6", "7", "8", "9",
              "A", "B", "G", "X", "a", "b", "c", "g", "x">>
Rank(c) == CHOOSE i \in 1..Len(Alphabet) : Alphabet[i] = c

RECURSIVE LeqStr(_, _)
LeqStr(a, b) ==
    IF a = <<>> THEN TRUE
    ELSE IF b = <<>> THEN FALSE
    ELSE IF Rank(Head(a)) # Rank(Head(b)) THEN Rank(Head(a)) < Rank(Head(b))
    ELSE LeqStr(Tail(a), Tail(b))

Leq(v, w) ==
    \/ w = Null
    \/ v # Null /\ IsNum(v) /\ Val(v) <= Val(w)
    \/ v # Null /\ IsStr(v) /\ LeqStr(Val(v), Val(w))

SortKey(row, col) ==
    CASE col = "id" -> Num(row.id)
      [] col = "created_at" -> Num(row.created_at)
      [] OTHER -> row[col]

Perms(S) == {s \in [1..Cardinality(S) -> S] : \A i, j \in DOMAIN s : i # j => s[i] # s[j]}

\* The orders in which the store may return the rows for ORDER BY col dir:
\* rows with equal keys come in any order.
OrderBy(t, ids, col, dir) ==
    {s \in Perms(ids) :
        \A i, j \in DOMAIN s : i < j =>
            IF dir = "ASC" THEN Leq(SortKey(t[s[i]], col), SortKey(t[s[j]], col))
            ELSE Leq(SortKey(t[s[j]], col), SortKey(t[s[i]], col))}

Min(a, b) == IF a < b THEN a ELSE b
Max(a, b) == IF a > b THEN a ELSE b

\* LIMIT lim OFFSET off of an ordered result.
LimitOffset(t, s, lim, off) ==
    [i \in 1..Max(0, Min(lim, Len(s) - off)) |-> Obj(t[s[off + i]])]

\* The rows the first statement of findAll may return.
findAllRows(t, o) ==
    {LimitOffset(t, s, o.limit, offset(o.page, o.limit)) :
        s \in OrderBy(t, {j \in DOMAIN t : whereClause(t[j], o)},
                      safeSortBy(o.sortBy), safeSortOrder(o.sortOrder))}

\* The second statement of findAll: COUNT(*) under the same WHERE.
findAllCount(t, o) == Cardinality({j \in DOMAIN t : whereClause(t[j], o)})

\* Math.ceil(total / limit)
ceil(total, limit) == (total + limit - 1) \div limit

pagination(o, total) ==
    [currentPage |-> o.page, totalPages |-> ceil(total, o.limit),
     totalItems |-> total, itemsPerPage |-> o.limit]

\* Book.search: ILIKE on title, author or description, ORDER BY title.
search(t, term) ==
    {[i \in 1..Len(s) |-> Obj(t[s[i]])] :
        s \in OrderBy(t, {j \in DOMAIN t :
                            \/ ILike(t[j].title, term)
                            \/ ILike(t[j].author, term)
                            \/ ILike(t[j].description, term)},
                      "title", "ASC")}

(***************************************************************************)
(* The requests the model draws                                            *)
(***************************************************************************)
Isbn1 == <<"0", "4", "5", "2", "2", "8", "4", "2", "3", "4">>
Isbn2 == <<"0", "4", "5", "2", "2", "8", "4", "2", "3", "X">>

EmptyBody == [f \in FieldSet |-> Undefined]
EmptyQuery ==
    [page |-> Undefined, limit |-> Undefined, sortBy |-> Undefined,
     sortOrder |-> Undefined, genre |-> Undefined, author |-> Undefined,
     inStock |-> Undefined, q |-> Undefined]

IsbnBody(isbn) == [EmptyBody EXCEPT !.isbn = isbn]
NullingBody == [EmptyBody EXCEPT !.isbn = Null, !.genre = Null]
TitleBody ==
    [EmptyBody EXCEPT !.title = Str(<<" ", "c">>), !.price = Num(5),
                      !.in_stock = Bool(FALSE)]
MinimalBody == [EmptyBody EXCEPT !.title = Str(<<" ", "A">>), !.author = Str(<<"b">>)]
FullBody ==
    [title |-> Str(<<"a">>), author |-> Str(<<"b">>), isbn |-> Str(Isbn1),
     publication_year |-> Num(1949), genre |-> Str(<<"G">>), pages |-> Num(328),
     description |-> Str(<<"a", "b">>), price |-> Num(9995),
     in_stock |-> Bool(FALSE)]
PaddedIsbnBody ==
    [EmptyBody EXCEPT !.title = Str(<<"b">>), !.author = Str(<<"a">>),
                      !.isbn = Str(<<" ">> \o Isbn1), !.price = Null]

\* Bodies that pass createBookValidation.
ValidCreateBodies ==
    { MinimalBody, FullBody, PaddedIsbnBody,
      [EmptyBody EXCEPT !.title = Str(<<"c">>), !.author = Str(<<"a">>),
                        !.isbn = Str(Isbn2), !.in_stock = Bool(TRUE)] }

\* Bodies that createBookValidation rejects.
InvalidCreateBodies ==
    { [EmptyBody EXCEPT !.author = Str(<<"b">>)],
      [EmptyBody EXCEPT !.title = Str(<<"a">>), !.author = Str(<<"b">>),
                        !.isbn = Str(<<"1", "2", "3">>)],
      [EmptyBody EXCEPT !.title = Str(<<" ">>), !.author = Str(<<"b">>),
                        !.publication_year = Num(999), !.pages = Num(0),
                        !.price = Num(0 - 1), !.in_stock = Num(2)],
      [EmptyBody EXCEPT !.title = Str([i \in 1..(TitleMaxLen + 1) |-> "a"]),
                        !.author = Str(<<"b">>)] }

\* Bodies that pass updateBookValidation.
ValidUpdateBodies ==
    {EmptyBody, IsbnBody(Str(Isbn1)), IsbnBody(Str(Isbn2)), NullingBody, TitleBody}

\* Bodies that updateBookValidation rejects.
InvalidUpdateBodies ==
    { [EmptyBody EXCEPT !.title = Null],
      [EmptyBody EXCEPT !.pages = Num(0), !.isbn = Str(Isbn1)] }

\* Path ids: 0 fails the id rule.
RequestIds == {Num(i) : i \in 0..MaxId}
ValidIds == {Num(i) : i \in IdMin..MaxId}

ListQueries ==
    { EmptyQuery,
      [EmptyQuery EXCEPT !.page = Num(2), !.limit = Num(1), !.sortBy = Txt("title"),
                         !.sortOrder = Txt("asc")],
      [EmptyQuery EXCEPT !.page = Num(1), !.limit = Num(1), !.sortBy = Txt("price"),
                         !.sortOrder = Txt("DESC")],
      [EmptyQuery EXCEPT !.limit = Num(2), !.sortBy = Txt("id"),
                         !.inStock = Txt("true")],
      [EmptyQuery EXCEPT !.page = Num(3), !.genre = Str(<<"g">>),
                         !.inStock = Txt("false")],
      [EmptyQuery EXCEPT !.author = Str(<<"B">>), !.sortOrder = Txt("ASC")],
      [EmptyQuery EXCEPT !.sortBy = Txt("genre")],
      [EmptyQuery EXCEPT !.sortOrder = Txt("up"), !.page = Num(0)],
      [EmptyQuery EXCEPT !.limit = Num(LimitMax + 1), !.inStock = Txt("yes")] }

SearchQueries ==
    { [EmptyQuery EXCEPT !.q = Str(<<"a", "b">>)],
      [EmptyQuery EXCEPT !.q = Str(<<" ", "A", " ">>)],
      EmptyQuery }

Request(method, path, id, body, query) ==
    [method |-> method, path |-> path, id |-> id, body |-> body, query |-> query]

Post(b) == Request("POST", "/", Undefined, b, EmptyQuery)
Put(id, b) == Request("PUT", "/:id", id, b, EmptyQuery)
Patch(id, b) == Request("PATCH", "/:id", id, b, EmptyQuery)
Get(id) == Request("GET", "/:id", id, EmptyBody, EmptyQuery)
Del(id) == Request("DELETE", "/:id", id, EmptyBody, EmptyQuery)
List(q) == Request("GET", "/", Undefined, EmptyBody, q)
Search(q) == Request("GET", "/search", Undefined, EmptyBody, q)

\* The request mixes the model explores.  A behaviour draws all its requests
\* from one mix; within a mix every interleaving of the handlers is explored.
Mixes == {"isbn", "crud", "update", "null", "list", "search", "invalid", "race"}

IsbnWorkload ==
    {Post(FullBody), Post(PaddedIsbnBody)}
    \cup {Put(id, IsbnBody(Str(Isbn1))) : id \in ValidIds}
    \cup {Patch(id, IsbnBody(Str(Isbn2))) : id \in ValidIds}

CrudWorkload ==
    {Post(MinimalBody), Post(FullBody)}
    \cup {Put(id, EmptyBody) : id \in ValidIds}
    \cup {Patch(id, EmptyBody) : id \in ValidIds}
    \cup {Get(id) : id \in ValidIds}
    \cup {Del(id) : id \in ValidIds}

UpdateWorkload ==
    {Post(MinimalBody), Post(FullBody)}
    \cup {Put(id, TitleBody) : id \in ValidIds}
    \cup {Del(id) : id \in ValidIds}

NullWorkload ==
    {Post(FullBody)}
    \cup {Patch(id, NullingBody) : id \in ValidIds}

ListWorkload ==
    {Post(MinimalBody), Post(FullBody), Post(PaddedIsbnBody)}
    \cup {List(q) : q \in ListQueries}

SearchWorkload ==
    {Post(b) : b \in ValidCreateBodies}
    \cup {Del(id) : id \in ValidIds}
    \cup {Search(q) : q \in SearchQueries}

InvalidWorkload ==
    {Post(b) : b \in InvalidCreateBodies \cup {MinimalBody}}
    \cup {Put(id, b) : id \in RequestIds, b \in InvalidUpdateBodies}
    \cup {Patch(id, b) : id \in RequestIds, b \in InvalidUpdateBodies}
    \cup {Put(Num(0), EmptyBody), Patch(Num(0), EmptyBody), Get(Num(0)), Del(Num(0))}
    \cup {List(q) : q \in ListQueries}
    \cup {Search(q) : q \in SearchQueries}

\* Creates that all carry one isbn, and nothing else.
RaceWorkload == {Post(FullBody), Post(PaddedIsbnBody)}

\* The requests sent while the store's statements may fail.
OutageWorkload ==
    { Post(FullBody), Get(Num(0)), List(EmptyQuery),
      Search([EmptyQuery EXCEPT !.q = Str(<<"a", "b">>)]),
      Put(Num(IdMin), IsbnBody(Str(Isbn2))), Patch(Num(IdMin), IsbnBody(Str(Isbn1))),
      Get(Num(IdMin)), Del(Num(IdMin)) }

Workload(m) ==
    CASE m = "isbn" -> IsbnWorkload
      [] m = "crud" -> CrudWorkload
      [] m = "update" -> UpdateWorkload
      [] m = "null" -> NullWorkload
      [] m = "list" -> ListWorkload
      [] m = "search" -> SearchWorkload
      [] m = "invalid" -> InvalidWorkload
      [] m = "race" -> RaceWorkload
      [] m = "outage" -> OutageWorkload

\* The requests in flight: each slot runs one request's handler at a time.
Procs == {"r1", "r2"}

(***************************************************************************)
(* State                                                                   *)
(***************************************************************************)
VARIABLES
    mix,      \* the request mix of this behaviour
    table,    \* the books table: id -> row
    nextId,   \* the next value of the id sequence (SERIAL)
    now,      \* the latest CURRENT_TIMESTAMP a statement has stored
    pc,       \* per request: the statement its handler awaits
    input,    \* per request: the request as the client sent it
    resp,     \* per request: the response
    local,    \* per request: result.rows of findAll's first statement, or the
              \* error its handler caught
    queries,  \* per request: the statements the store ran for it
    orderBy,  \* per request: the ORDER BY of its list statement
    origin,   \* id -> the record its create answered with, for the rows no
              \* statement has written since
    created   \* the ids of all rows ever inserted

store == <<table, nextId, now>>
history == <<origin, created>>
vars == <<mix, table, nextId, now, pc, input, resp, local, queries, orderBy,
          origin, created>>

NoRequest == Request("", "", Undefined, EmptyBody, EmptyQuery)
NoResponse ==
    [status |-> 0, data |-> Undefined, pagination |-> Undefined, details |-> <<>>]

Init ==
    /\ mix \in Mixes
    /\ table = <<>>
    /\ nextId = 1
    /\ now = 0
    /\ pc = [p \in Procs |-> "idle"]
    /\ input = [p \in Procs |-> NoRequest]
    /\ resp = [p \in Procs |-> NoResponse]
    /\ local = [p \in Procs |-> Undefined]
    /\ queries = [p \in Procs |-> 0]
    /\ orderBy = [p \in Procs |-> <<>>]
    /\ origin = <<>>
    /\ created = {}

Without(f, id) == [j \in DOMAIN f \ {id} |-> f[j]]

\* A statement's CURRENT_TIMESTAMP: not before the previous one.
Timestamps == now..Min(now + 1, MaxClock)

(***************************************************************************)
(* Middleware: the validation chain of the route, its sanitizers, validate *)
(***************************************************************************)
validation(r) ==
    CASE r.method = "POST" -> createBookValidation(r)
      [] r.method \in {"PUT", "PATCH"} -> updateBookValidation(r)
      [] r.method \in {"GET", "DELETE"} /\ r.path = "/:id" -> idParamValidation(r)
      [] r.method = "GET" /\ r.path = "/" -> listBooksValidation(r)
      [] r.method = "GET" /\ r.path = "/search" -> searchValidation(r)
      [] OTHER -> <<>>

\* req as the handler sees it: the sanitizers have rewritten the fields.
sanitized(r) ==
    CASE r.method = "POST" -> [r EXCEPT !.body = createBookSanitized(r.body)]
      [] r.method \in {"PUT", "PATCH"} -> [r EXCEPT !.body = updateBookSanitized(r.body)]
      [] r.method = "GET" /\ r.path = "/search" -> [r EXCEPT !.query.q = trim(r.query.q)]
      [] OTHER -> r

req(p) == sanitized(input[p])

\* A response is being sent: the turn of the event loop that answers runs to
\* its end before another continuation is taken up.
Responding == \E p \in Procs : pc[p] = "done"

\* The continuation of request p that awaits at label is taken up.
Resume(p, label) == ~Responding /\ pc[p] = label

\* The creates whose INSERT is still to come.
PendingCreates == {q \in Procs : pc[q] = "post_create"}

\* A request arrives in a free slot.  Its arrival is taken together with the
\* first thing that happens to it: validate's 400, or the first statement of
\* its handler.  (MaxId bounds the INSERTs of a behaviour.)
Arrive(p, r) ==
    /\ Resume(p, "idle")
    /\ r.method = "POST" => nextId + Cardinality(PendingCreates) <= MaxId

\* The statement the handler awaited has run; it awaits the next one.
Await(p, r, next) ==
    /\ pc' = [pc EXCEPT ![p] = next]
    /\ input' = [input EXCEPT ![p] = r]
    /\ queries' = [queries EXCEPT ![p] = @ + 1]
    /\ UNCHANGED resp

\* The statement the handler awaited has run; res.status(status).json(...)
Reply(p, r, status, data, pag) ==
    /\ pc' = [pc EXCEPT ![p] = "done"]
    /\ input' = [input EXCEPT ![p] = r]
    /\ resp' = [resp EXCEPT ![p] = [status |-> status, data |-> data,
                                     pagination |-> pag, details |-> <<>>]]
    /\ queries' = [queries EXCEPT ![p] = @ + 1]

\* next(error): the error boundary answers.
Throw(p, r, err) == Reply(p, r, errorHandler(err), Undefined, Undefined)

\* validate answers 400: the handler never runs.
validate_400(p) ==
    \E r \in Workload(mix) :
        /\ Arrive(p, r)
        /\ ~validate(validation(r)).next
        /\ pc' = [pc EXCEPT ![p] = "done"]
        /\ input' = [input EXCEPT ![p] = r]
        /\ resp' = [resp EXCEPT ![p] =
                [status |-> validate(validation(r)).status, data |-> Undefined,
                 pagination |-> Undefined,
                 details |-> validate(validation(r)).details]]
        /\ UNCHANGED <<mix, store, history, local, queries, orderBy>>

\* next(): the handler of the route runs.
Handle(p, r, method, path) ==
    /\ r.method = method
    /\ r.path = path
    /\ Arrive(p, r)
    /\ validate(validation(r)).next

(***************************************************************************)
(* Request handlers (src/src/routes/books.js): for each statement a handler *)
(* awaits, the statement and the handler's code up to its next await.      *)
(* r is the request as sent, sanitized(r) the request the handler reads.   *)
(***************************************************************************)
\* GET /:id
get_findById(p, r) ==
    /\ IF ~Truthy(findById(table, sanitized(r).id))
       THEN Throw(p, r, notFound)
       ELSE Reply(p, r, 200, findById(table, sanitized(r).id), Undefined)
    /\ UNCHANGED <<mix, store, history, local, orderBy>>

\* POST /: the uniqueness pre-check.
post_findByIsbn(p, r) ==
    /\ IF Truthy(findByIsbn(table, sanitized(r).body.isbn))
       THEN Throw(p, r, conflict)
       ELSE Await(p, r, "post_create")
    /\ UNCHANGED <<mix, store, history, local, orderBy>>

\* POST /: Book.create, then 201 or the store's error.  The id sequence
\* advances whether or not the INSERT succeeds.
post_create(p, r) ==
    /\ \E ts \in Timestamps :
         LET result == create(table, nextId, sanitized(r).body, ts) IN
         /\ nextId' = nextId + 1
         /\ table' = result.table
         /\ IF result.err # ""
            THEN /\ Throw(p, r, DatabaseError(result.err))
                 /\ UNCHANGED <<now, history>>
            ELSE /\ Reply(p, r, 201, Obj(result.rows[1]), Undefined)
                 /\ now' = ts
                 /\ origin' = (nextId :> result.rows[1]) @@ origin
                 /\ created' = created \cup {nextId}
    /\ UNCHANGED <<mix, local, orderBy>>

\* The check both update handlers make once the book is loaded: is another
\* lookup by isbn needed?
isbnChanges(body, book) == Truthy(body.isbn) /\ body.isbn # Val(book).isbn

\* PUT /:id, after Book.findById: what the handler does next.  rq is the
\* request as the handler reads it, sanitized.
put_book(t, rq) ==
    IF ~Truthy(findById(t, rq.id)) THEN "notFound"
    ELSE IF isbnChanges(rq.body, findById(t, rq.id)) THEN "findByIsbn"
    ELSE "update"

\* PUT /:id, after Book.findByIsbn: what the handler does next.
put_existingBook(t, rq) ==
    IF Truthy(findByIsbn(t, rq.body.isbn)) THEN "conflict" ELSE "update"

\* Faulty variant: a PATCH handler that skips the isbn check.
patch_book_NoIsbnCheck(t, rq) ==
    IF ~Truthy(findById(t, rq.id)) THEN "notFound" ELSE "update"

\* PATCH /:id, after Book.findById: what the handler does next.
patch_book(t, rq) ==
    IF ~Truthy(findById(t, rq.id)) THEN "notFound"
    ELSE IF isbnChanges(rq.body, findById(t, rq.id)) THEN "findByIsbn"
    ELSE "update"

\* PATCH /:id, after Book.findByIsbn: what the handler does next.
patch_existingBook(t, rq) ==
    IF Truthy(findByIsbn(t, rq.body.isbn)) THEN "conflict" ELSE "update"

\* PUT /:id: load the book.
put_findById(p, r) ==
    /\ CASE put_book(table, sanitized(r)) = "notFound" -> Throw(p, r, notFound)
         [] put_book(table, sanitized(r)) = "findByIsbn" -> Await(p, r, "put_findByIsbn")
         [] put_book(table, sanitized(r)) = "update" -> Await(p, r, "update_findById")
    /\ UNCHANGED <<mix, store, history, local, orderBy>>

\* PUT /:id: the uniqueness check.
put_findByIsbn(p, r) ==
    /\ CASE put_existingBook(table, sanitized(r)) = "conflict" -> Throw(p, r, conflict)
         [] put_existingBook(table, sanitized(r)) = "update" ->
                Await(p, r, "update_findById")
    /\ UNCHANGED <<mix, store, history, local, orderBy>>

\* PATCH /:id: load the book.
patch_findById(p, r) ==
    /\ CASE patch_book(table, sanitized(r)) = "notFound" -> Throw(p, r, notFound)
         [] patch_book(table, sanitized(r)) = "findByIsbn" ->
                Await(p, r, "patch_findByIsbn")
         [] patch_book(table, sanitized(r)) = "update" -> Await(p, r, "update_findById")
    /\ UNCHANGED <<mix, store, history, local, orderBy>>

\* PATCH /:id: the uniqueness check.
patch_findByIsbn(p, r) ==
    /\ CASE patch_existingBook(table, sanitized(r)) = "conflict" -> Throw(p, r, conflict)
         [] patch_existingBook(table, sanitized(r)) = "update" ->
                Await(p, r, "update_findById")
    /\ UNCHANGED <<mix, store, history, local, orderBy>>

\* Faulty variant: Book.update without its early return for an empty SET clause.
update_load_NoEarlyReturn(p, r) ==
    /\ IF ~Truthy(findById(table, sanitized(r).id))
       THEN Reply(p, r, 200, Null, Undefined)
       ELSE Await(p, r, "update_exec")
    /\ UNCHANGED <<mix, store, history, local, orderBy>>

\* Book.update, first statement: the existing row.  Absent: null is returned
\* and the handler answers 200 with it.  No field to set: the existing row is
\* returned.
update_load(p, r) ==
    /\ IF ~Truthy(findById(table, sanitized(r).id))
       THEN Reply(p, r, 200, Null, Undefined)
       ELSE IF updates(sanitized(r).body) = {}
       THEN Reply(p, r, 200, findById(table, sanitized(r).id), Undefined)
       ELSE Await(p, r, "update_exec")
    /\ UNCHANGED <<mix, store, history, local, orderBy>>

\* Book.update, second statement: the UPDATE; result.rows[0] is returned.
update_store(p, r) ==
    /\ \E ts \in Timestamps :
         LET result == Update(table, Val(sanitized(r).id), updates(sanitized(r).body),
                              sanitized(r).body, ts) IN
         /\ table' = result.table
         /\ IF result.err # ""
            THEN /\ Throw(p, r, DatabaseError(result.err))
                 /\ UNCHANGED <<now, origin>>
            ELSE IF result.rows = <<>>
            THEN /\ Reply(p, r, 200, Undefined, Undefined)
                 /\ UNCHANGED <<now, origin>>
            ELSE /\ Reply(p, r, 200, Obj(result.rows[1]), Undefined)
                 /\ now' = ts
                 /\ origin' = Without(origin, Val(sanitized(r).id))
    /\ UNCHANGED <<mix, nextId, created, local, orderBy>>

\* DELETE /:id
delete_exec(p, r) ==
    /\ table' = delete(table, sanitized(r).id).table
    /\ IF delete(table, sanitized(r).id).rowCount > 0
       THEN Reply(p, r, 200, Undefined, Undefined)
       ELSE Throw(p, r, notFound)
    /\ origin' = Without(origin, Val(sanitized(r).id))
    /\ UNCHANGED <<mix, nextId, now, created, local, orderBy>>

\* GET /: the first statement of Book.findAll.
findAll_rows(p, r) ==
    /\ \E rows \in findAllRows(table, listOptions(sanitized(r).query)) :
         local' = [local EXCEPT ![p] = Arr(rows)]
    /\ orderBy' = [orderBy EXCEPT ![p] =
            <<safeSortBy(listOptions(sanitized(r).query).sortBy),
              safeSortOrder(listOptions(sanitized(r).query).sortOrder)>>]
    /\ Await(p, r, "findAll_count")
    /\ UNCHANGED <<mix, store, history>>

\* GET /: the count statement of Book.findAll, then the 200.
findAll_total(p, r) ==
    /\ Reply(p, r, 200, local[p],
             pagination(listOptions(sanitized(r).query),
                        findAllCount(table, listOptions(sanitized(r).query))))
    /\ local' = [local EXCEPT ![p] = Undefined]
    /\ UNCHANGED <<mix, store, history, orderBy>>

\* GET /search
search_exec(p, r) ==
    /\ \E rows \in search(table, Val(sanitized(r).query.q)) :
         Reply(p, r, 200, Arr(rows), Undefined)
    /\ UNCHANGED <<mix, store, history, local, orderBy>>

(***************************************************************************)
(* Actions: a handler starts with its first statement, or goes on with the *)
(* statement it awaited.                                                   *)
(***************************************************************************)
router_get_id(p) ==
    \E r \in Workload(mix) : Handle(p, r, "GET", "/:id") /\ get_findById(p, r)

router_post(p) ==
    \E r \in Workload(mix) :
        /\ Handle(p, r, "POST", "/")
        /\ IF Truthy(sanitized(r).body.isbn)
           THEN post_findByIsbn(p, r)
           ELSE post_create(p, r)

router_post_create(p) == Resume(p, "post_create") /\ post_create(p, input[p])

router_put(p) ==
    \E r \in Workload(mix) : Handle(p, r, "PUT", "/:id") /\ put_findById(p, r)

router_put_findByIsbn(p) == Resume(p, "put_findByIsbn") /\ put_findByIsbn(p, input[p])

router_patch(p) ==
    \E r \in Workload(mix) : Handle(p, r, "PATCH", "/:id") /\ patch_findById(p, r)

router_patch_findByIsbn(p) ==
    Resume(p, "patch_findByIsbn") /\ patch_findByIsbn(p, input[p])

update_findById(p) == Resume(p, "update_findById") /\ update_load(p, input[p])

update_exec(p) == Resume(p, "update_exec") /\ update_store(p, input[p])

router_delete(p) ==
    \E r \in Workload(mix) : Handle(p, r, "DELETE", "/:id") /\ delete_exec(p, r)

router_get(p) ==
    \E r \in Workload(mix) : Handle(p, r, "GET", "/") /\ findAll_rows(p, r)

findAll_count(p) == Resume(p, "findAll_count") /\ findAll_total(p, input[p])

router_get_search(p) ==
    \E r \in Workload(mix) : Handle(p, r, "GET", "/search") /\ search_exec(p, r)

\* query rethrows what pool.query rejected with; the handler's catch block
\* passes it to the error boundary.  Nothing is tried again.
catch(p, r, f) ==
    /\ Throw(p, r, DatabaseError(f.code))
    /\ local' = [local EXCEPT ![p] = Caught(f)]
    /\ UNCHANGED <<mix, store, history, orderBy>>

\* The first statement of a handler fails.
query_error(p) ==
    \E r \in Workload(mix), f \in StoreFailures :
        /\ Arrive(p, r)
        /\ validate(validation(r)).next
        /\ catch(p, r, f)

\* A later statement of a handler fails.
query_error_awaited(p) ==
    \E f \in StoreFailures :
        /\ ~Responding
        /\ pc[p] \notin {"idle", "done"}
        /\ catch(p, input[p], f)

\* The response is sent and the request is over: the continuation that
\* answers runs to its end in the same turn of the event loop.
Close(p) ==
    /\ pc[p] = "done"
    /\ pc' = [pc EXCEPT ![p] = "idle"]
    /\ input' = [input EXCEPT ![p] = NoRequest]
    /\ resp' = [resp EXCEPT ![p] = NoResponse]
    /\ queries' = [queries EXCEPT ![p] = 0]
    /\ orderBy' = [orderBy EXCEPT ![p] = <<>>]
    /\ local' = [local EXCEPT ![p] = Undefined]
    /\ UNCHANGED <<mix, store, history>>

Next ==
    \/ \E p \in Procs : validate_400(p)
    \/ \E p \in Procs : router_get_id(p)
    \/ \E p \in Procs : router_post(p)
    \/ \E p \in Procs : router_post_create(p)
    \/ \E p \in Procs : router_put(p)
    \/ \E p \in Procs : router_put_findByIsbn(p)
    \/ \E p \in Procs : router_patch(p)
    \/ \E p \in Procs : router_patch_findByIsbn(p)
    \/ \E p \in Procs : update_findById(p)
    \/ \E p \in Procs : update_exec(p)
    \/ \E p \in Procs : router_delete(p)
    \/ \E p \in Procs : router_get(p)
    \/ \E p \in Procs : findAll_count(p)
    \/ \E p \in Procs : router_get_search(p)
    \/ \E p \in Procs : Close(p)

Spec == Init /\ [][Next]_vars

\* The same server in front of a store whose statements may fail.
InitOutage ==
    /\ mix = "outage"
    /\ table = <<>>
    /\ nextId = 1
    /\ now = 0
    /\ pc = [p \in Procs |-> "idle"]
    /\ input = [p \in Procs |-> NoRequest]
    /\ resp = [p \in Procs |-> NoResponse]
    /\ local = [p \in Procs |-> Undefined]
    /\ queries = [p \in Procs |-> 0]
    /\ orderBy = [p \in Procs |-> <<>>]
    /\ origin = <<>>
    /\ created = {}

NextOutage ==
    \/ Next
    \/ \E p \in Procs : query_error(p)
    \/ \E p \in Procs : query_error_awaited(p)

SpecOutage == InitOutage /\ [][NextOutage]_vars

(***************************************************************************)
(* Properties                                                              *)
(***************************************************************************)
\* Steps of the handler of p.  In the state after a step, input[p] is the
\* request the step belongs to.
Acts(p) == pc[p] # "done" /\ pc'[p] # pc[p]
Starts(p) == pc[p] = "idle" /\ pc'[p] # "idle"
Answers(p) == pc[p] # "done" /\ pc'[p] = "done"

Passes(r) == validation(r) = <<>>
IsUpdate(r) == r.method \in {"PUT", "PATCH"}
ById(r) == r.path = "/:id"
Exists(t, id) == Val(id) \in DOMAIN t
HeldByAny(t, isbn) == \E j \in DOMAIN t : t[j].isbn = isbn
HeldByOther(t, id, isbn) == \E j \in DOMAIN t \ {Val(id)} : t[j].isbn = isbn

\* C1: in every reachable state, under every interleaving of creates, updates
\* and deletes, no two distinct rows hold the same non-null isbn.
C1_IsbnUnique ==
    \A i, j \in DOMAIN table :
        (i # j /\ table[i].isbn # Null) => table[i].isbn # table[j].isbn

\* Two rows with isbns coexist, and a request has just been refused with 409.
C1_Witness ==
    /\ \E i, j \in DOMAIN table :
         i # j /\ table[i].isbn # Null /\ table[j].isbn # Null
    /\ \E p \in Procs : pc[p] = "done" /\ resp[p].status = 409

\* C2: a create carrying the isbn of a book B, or a PUT/PATCH on another
\* existing book carrying B's isbn, is answered 409, and no step of that
\* request changes the table.
C2_DuplicateIsbnRefused ==
    [][\A p \in Procs :
        /\ (Acts(p) /\ ~Answers(p)) => table' = table
        /\ ( /\ Answers(p)
             /\ Passes(input'[p])
             /\ Truthy(sanitized(input'[p]).body.isbn)
             /\ \/ /\ input'[p].method = "POST"
                   /\ HeldByAny(table, sanitized(input'[p]).body.isbn)
                \/ /\ IsUpdate(input'[p])
                   /\ Exists(table, input'[p].id)
                   /\ HeldByOther(table, input'[p].id, sanitized(input'[p]).body.isbn) )
           => (resp'[p].status = 409 /\ table' = table)]_vars

\* A PUT/PATCH carrying the isbn of another book has been answered 409; its
\* target and the other book are both in the table.
C2_Witness ==
    \E p \in Procs :
        /\ pc[p] = "done"
        /\ IsUpdate(input[p])
        /\ resp[p].status = 409
        /\ Exists(table, input[p].id)
        /\ HeldByOther(table, input[p].id, req(p).body.isbn)

\* C3: GET, PUT, PATCH and DELETE on a valid id that has no row (never
\* created, or deleted) answer 404 and leave the table unchanged.
C3_MissingIdIs404 ==
    [][\A p \in Procs :
        ( /\ Starts(p)
          /\ ById(input'[p])
          /\ Passes(input'[p])
          /\ ~Exists(table, input'[p].id) )
        => (Answers(p) /\ resp'[p].status = 404 /\ table' = table)]_vars

\* A PUT on the id of a deleted row has been answered 404.
C3_Witness ==
    \E p \in Procs :
        /\ pc[p] = "done"
        /\ input[p].method = "PUT"
        /\ Passes(input[p])
        /\ Val(input[p].id) \in created
        /\ ~Exists(table, input[p].id)
        /\ resp[p].status = 404

\* The record a create stores for a body that passed validation, as the
\* client supplied the fields.
Supplied(body) ==
    [f \in FieldSet |->
        IF body[f] # Undefined THEN body[f]
        ELSE IF f = "in_stock" THEN Bool(TRUE) ELSE Null]

\* The same with the strings trimmed and the price rounded to two
\* fractional digits.
Normalised(body) ==
    [f \in FieldSet |->
        IF f \in {"title", "author", "isbn", "genre", "description"}
             /\ IsStr(Supplied(body)[f])
        THEN trim(Supplied(body)[f])
        ELSE IF f = "price" THEN Decimal2(Supplied(body)[f])
        ELSE Supplied(body)[f]]

IsRecord(v) == v[1] = "object"

\* The response carries a fresh record: a positive id never used before, the
\* timestamps set, and the row is now in the table.
FreshRecord(p) ==
    /\ IsRecord(resp'[p].data)
    /\ Val(resp'[p].data).id \in Nat \ {0}
    /\ Val(resp'[p].data).id \notin created
    /\ created' = created \cup {Val(resp'[p].data).id}
    /\ Val(resp'[p].data).created_at \in Nat
    /\ Val(resp'[p].data).updated_at \in Nat
    /\ table' = (Val(resp'[p].data).id :> Val(resp'[p].data)) @@ table

\* C4 as stated: every create input that passes validation is answered 201
\* with a record whose every mutable field equals the supplied input, a
\* fresh positive id and both timestamps.
C4_Original ==
    [][\A p \in Procs :
        (Answers(p) /\ input'[p].method = "POST" /\ Passes(input'[p]))
        => /\ resp'[p].status = 201
           /\ FreshRecord(p)
           /\ \A f \in FieldSet :
                Val(resp'[p].data)[f] = Supplied(input'[p].body)[f]]_vars

\* C4, amended: a create input that passes validation is answered 409, with
\* nothing inserted, if its trimmed isbn is held by a row when the request is
\* answered; otherwise 201 with a record whose every mutable field equals the
\* input after normalisation (strings trimmed, price rounded to two
\* fractional digits; unsupplied optional fields null, in_stock true when not
\* supplied), a fresh positive id and both timestamps.
C4_CreateAnswer ==
    [][\A p \in Procs :
        (Answers(p) /\ input'[p].method = "POST" /\ Passes(input'[p]))
        => IF /\ Truthy(sanitized(input'[p]).body.isbn)
              /\ HeldByAny(table, sanitized(input'[p]).body.isbn)
           THEN resp'[p].status = 409 /\ table' = table /\ created' = created
           ELSE /\ resp'[p].status = 201
                /\ FreshRecord(p)
                /\ \A f \in FieldSet :
                     Val(resp'[p].data)[f] = Normalised(input'[p].body)[f]]_vars

\* A create whose title was sent with surrounding whitespace and without
\* in_stock has been answered 201.
C4_Witness ==
    \E p \in Procs :
        /\ pc[p] = "done"
        /\ input[p].method = "POST"
        /\ resp[p].status = 201
        /\ input[p].body.title # trim(input[p].body.title)
        /\ input[p].body.in_stock = Undefined
        /\ Val(resp[p].data).in_stock = Bool(TRUE)

\* C5: the record a create answers with is the one kept as the row's origin,
\* and a get-by-id of a row that no statement has written since its create
\* answers 200 with a record equal to it in id, fields and timestamps.
C5_RoundTrip ==
    [][\A p \in Procs :
        /\ (Answers(p) /\ input'[p].method = "POST" /\ resp'[p].status = 201)
           => /\ Val(resp'[p].data).id \in DOMAIN origin'
              /\ origin'[Val(resp'[p].data).id] = Val(resp'[p].data)
        /\ ( /\ Starts(p)
             /\ input'[p].method = "GET"
             /\ ById(input'[p])
             /\ Passes(input'[p])
             /\ Val(input'[p].id) \in DOMAIN origin )
           => /\ Answers(p)
              /\ resp'[p].status = 200
              /\ resp'[p].data = Obj(origin[Val(input'[p].id)])]_vars

\* A get-by-id of a row still as created (with a rounded price) has been
\* answered 200.
C5_Witness ==
    \E p \in Procs :
        /\ pc[p] = "done"
        /\ input[p].method = "GET"
        /\ ById(input[p])
        /\ resp[p].status = 200
        /\ Val(input[p].id) \in DOMAIN origin
        /\ Val(resp[p].data).price = Num(10000)

\* C6: an update answered 200 with a record leaves the row with exactly the
\* fields present in the input set to their values (null for a key sent as
\* null); absent fields, id and created_at keep their values; no other row
\* changes.
C6_UpdateFrame ==
    [][\A p \in Procs :
        ( /\ Answers(p)
          /\ IsUpdate(input'[p])
          /\ resp'[p].status = 200
          /\ IsRecord(resp'[p].data) )
        => /\ DOMAIN table' = DOMAIN table
           /\ Exists(table, input'[p].id)
           /\ \A j \in DOMAIN table \ {Val(input'[p].id)} : table'[j] = table[j]
           /\ resp'[p].data = Obj(table'[Val(input'[p].id)])
           /\ table'[Val(input'[p].id)].id = Val(input'[p].id)
           /\ table'[Val(input'[p].id)].created_at = table[Val(input'[p].id)].created_at
           /\ \A f \in FieldSet :
                IF input'[p].body[f] = Undefined
                THEN table'[Val(input'[p].id)][f] = table[Val(input'[p].id)][f]
                ELSE IF input'[p].body[f] = Null
                THEN table'[Val(input'[p].id)][f] = Null
                ELSE table'[Val(input'[p].id)][f] =
                        (IF f = "price" THEN Decimal2(sanitized(input'[p]).body[f])
                         ELSE sanitized(input'[p]).body[f])]_vars

\* A PATCH that sent isbn and genre as null has been answered 200: both
\* columns are null and the title is still the created one.
C6_Witness ==
    \E p \in Procs :
        /\ pc[p] = "done"
        /\ input[p].method = "PATCH"
        /\ input[p].body.isbn = Null
        /\ resp[p].status = 200
        /\ IsRecord(resp[p].data)
        /\ Val(resp[p].data).isbn = Null
        /\ Val(resp[p].data).genre = Null
        /\ Val(resp[p].data).title = Str(<<"a">>)
        /\ Val(resp[p].data).updated_at > Val(resp[p].data).created_at

\* C7: a PUT or PATCH with an empty body runs no write (its statements are
\* the two lookups, and the table and the clock stay as they are); on an
\* existing book it is answered 200 with the row as it is, updated_at
\* included.
C7_EmptyUpdateNoOp ==
    [][\A p \in Procs :
        ( /\ Acts(p)
          /\ IsUpdate(input'[p])
          /\ Passes(input'[p])
          /\ \A f \in FieldSet : input'[p].body[f] = Undefined )
        => /\ table' = table
           /\ now' = now
           /\ queries'[p] <= 2
           /\ (Answers(p) /\ Exists(table, input'[p].id))
              => /\ resp'[p].status = 200
                 /\ resp'[p].data = Obj(table[Val(input'[p].id)])]_vars

\* An update with an empty body on an existing row has been answered 200
\* with that row after its two lookups.
C7_Witness ==
    \E p \in Procs :
        /\ pc[p] = "done"
        /\ IsUpdate(input[p])
        /\ \A f \in FieldSet : input[p].body[f] = Undefined
        /\ resp[p].status = 200
        /\ Exists(table, input[p].id)
        /\ resp[p].data = Obj(table[Val(input[p].id)])
        /\ queries[p] = 2

\* C8: a request that fails validation is answered 400 with the failures of
\* its rules in the step in which it arrives: no statement has reached the
\* store and nothing in it has changed.
C8_InvalidIs400 ==
    [][\A p \in Procs :
        (Starts(p) /\ ~Passes(input'[p]))
        => /\ Answers(p)
           /\ resp'[p].status = 400
           /\ resp'[p].details = validation(input'[p])
           /\ resp'[p].details # <<>>
           /\ queries'[p] = 0
           /\ store' = store]_vars

\* An update with a bad id and a bad body has been answered 400 with both
\* failures, no statement run, while the table holds a row.
C8_Witness ==
    \E p \in Procs :
        /\ pc[p] = "done"
        /\ IsUpdate(input[p])
        /\ ~Passes(input[p])
        /\ resp[p].status = 400
        /\ Len(resp[p].details) >= 2
        /\ queries[p] = 0
        /\ DOMAIN table # {}

IsList(r) == r.method = "GET" /\ r.path = "/"

\* C9: the ORDER BY of a list statement names one of id, title, author,
\* publication_year, price, created_at, namely the requested one (created_at
\* when none was requested), and ASC or DESC as requested (DESC when none
\* was); a list request whose sortBy is outside those six is answered 400 and
\* runs no statement.
C9_SortWhitelist ==
    \A p \in Procs :
        /\ orderBy[p] # <<>>
           => /\ IsList(input[p])
              /\ orderBy[p][1] \in {"id", "title", "author", "publication_year",
                                    "price", "created_at"}
              /\ orderBy[p][1] = (IF input[p].query.sortBy = Undefined THEN "created_at"
                                  ELSE Val(input[p].query.sortBy))
              /\ orderBy[p][2] \in {"ASC", "DESC"}
              /\ orderBy[p][2] = (IF input[p].query.sortOrder = Undefined THEN "DESC"
                                  ELSE toUpperCase(Val(input[p].query.sortOrder)))
        /\ ( /\ pc[p] = "done"
             /\ IsList(input[p])
             /\ input[p].query.sortBy # Undefined
             /\ Val(input[p].query.sortBy) \notin {"id", "title", "author",
                                                   "publication_year", "price",
                                                   "created_at"} )
           => /\ resp[p].status = 400
              /\ queries[p] = 0
              /\ orderBy[p] = <<>>

\* A list request for sortBy=title, sortOrder=asc has run its first statement
\* with ORDER BY title ASC.
C9_Witness ==
    \E p \in Procs :
        /\ pc[p] = "findAll_count"
        /\ input[p].query.sortBy = Txt("title")
        /\ input[p].query.sortOrder = Txt("asc")
        /\ orderBy[p] = <<"title", "ASC">>

\* The page and the page size a list request asks for.
Page(r) == IF r.query.page = Undefined THEN 1 ELSE Val(r.query.page)
PageSize(r) == IF r.query.limit = Undefined THEN 10 ELSE Val(r.query.limit)

\* The rows that match the filters of a list request.
Matching(t, r) == {j \in DOMAIN t : whereClause(t[j], listOptions(r.query))}

\* C10: the rows statement of a valid list request returns the slice
\* (page-1)*limit+1 .. min(page*limit, n) of the n matching rows in the
\* requested order (empty when the page lies beyond the last); the count
\* statement then answers 200 with those rows, totalItems the number of
\* matching rows and totalPages = ceil(totalItems / limit).
C10_Pagination ==
    [][\A p \in Procs :
        /\ (Starts(p) /\ IsList(input'[p]) /\ Passes(input'[p]))
           => /\ pc'[p] = "findAll_count"
              /\ local'[p][1] = "array"
              /\ Len(Val(local'[p])) =
                    Max(0, Min(PageSize(input'[p]),
                               Cardinality(Matching(table, input'[p]))
                                 - (Page(input'[p]) - 1) * PageSize(input'[p])))
              /\ \E s \in OrderBy(table, Matching(table, input'[p]),
                                  orderBy'[p][1], orderBy'[p][2]) :
                    \A i \in 1..Len(Val(local'[p])) :
                        Val(local'[p])[i] =
                            Obj(table[s[(Page(input'[p]) - 1) * PageSize(input'[p]) + i]])
        /\ (pc[p] = "findAll_count" /\ Acts(p))
           => /\ Answers(p)
              /\ resp'[p].status = 200
              /\ resp'[p].data = local[p]
              /\ resp'[p].pagination.currentPage = Page(input[p])
              /\ resp'[p].pagination.itemsPerPage = PageSize(input[p])
              /\ resp'[p].pagination.totalItems = Cardinality(Matching(table, input[p]))
              /\ resp'[p].pagination.totalPages * PageSize(input[p])
                    >= resp'[p].pagination.totalItems
              /\ (resp'[p].pagination.totalPages - 1) * PageSize(input[p])
                    < resp'[p].pagination.totalItems]_vars

\* Page 2 of size 1 of two books sorted by title has been answered 200 with
\* the second one; totalPages is 2.
C10_Witness ==
    \E p \in Procs :
        /\ pc[p] = "done"
        /\ IsList(input[p])
        /\ input[p].query.page = Num(2)
        /\ input[p].query.limit = Num(1)
        /\ resp[p].status = 200
        /\ Len(Val(resp[p].data)) = 1
        /\ resp[p].pagination.totalItems = 2
        /\ resp[p].pagination.totalPages = 2
        /\ \E j \in DOMAIN table :
              /\ Val(resp[p].data)[1] = Obj(table[j])
              /\ \A k \in DOMAIN table : Leq(table[k].title, table[j].title)

\* A page beyond the last has been answered 200 with an empty array.
C10_BeyondLast ==
    \E p \in Procs :
        /\ pc[p] = "done"
        /\ IsList(input[p])
        /\ resp[p].status = 200
        /\ resp[p].data = Arr(<<>>)
        /\ Page(input[p]) > resp[p].pagination.totalPages
        /\ DOMAIN table # {}

\* The status the taxonomy gives a store failure of each kind.
Taxonomy(kind) ==
    CASE kind = "unique_violation" -> 409
      [] kind = "foreign_key_violation" -> 400
      [] kind = "invalid_text_representation" -> 400
      [] kind = "connection_refused" -> 503
      [] kind = "connection_timeout" -> 503
      [] OTHER -> 500

HasCaught(v) == v[1] = "error"

\* C11: a statement that fails is answered by the error boundary in the same
\* step, with no further statement for the request and the table untouched:
\* 409 for a unique violation, 400 for a foreign-key violation or a malformed
\* value, 503 for every unavailability failure (connection refused and
\* connection-acquisition timeout alike), 500 for an unclassified one.
C11_StoreFailureMapping ==
    [][\A p \in Procs :
        (Acts(p) /\ HasCaught(local'[p]))
        => /\ Answers(p)
           /\ queries'[p] = queries[p] + 1
           /\ table' = table
           /\ resp'[p].status = Taxonomy(local'[p][2])]_vars

\* The ids whose row has been removed.
Deleted == created \ DOMAIN table

\* C12: a DELETE by id is answered 200 if the row is there, and then exactly
\* that row is removed; otherwise 404 and the table is as it was.  A removed
\* id stays removed, so a get-by-id of it is answered 404 and of two DELETEs
\* of one id the first is answered 200 and the second 404.
C12_DeleteOnce ==
    [][/\ Deleted \subseteq Deleted'
       /\ \A p \in Procs :
            /\ (Starts(p) /\ input'[p].method = "DELETE" /\ Passes(input'[p]))
               => /\ Answers(p)
                  /\ resp'[p].status = (IF Exists(table, input'[p].id) THEN 200 ELSE 404)
                  /\ table' = Without(table, Val(input'[p].id))
                  /\ Deleted' = Deleted \cup (DOMAIN table \cap {Val(input'[p].id)})
            /\ ( /\ Starts(p)
                 /\ input'[p].method \in {"GET", "DELETE"}
                 /\ ById(input'[p])
                 /\ Passes(input'[p])
                 /\ Val(input'[p].id) \in Deleted )
               => /\ Answers(p)
                  /\ resp'[p].status = 404
                  /\ table' = table
            /\ (Acts(p) /\ input'[p].method # "DELETE")
               => DOMAIN table \subseteq DOMAIN table']_vars

\* A second DELETE of an id has been answered 404 while another row is still
\* in the table.
C12_Witness ==
    \E p \in Procs :
        /\ pc[p] = "done"
        /\ input[p].method = "DELETE"
        /\ Val(input[p].id) \in Deleted
        /\ resp[p].status = 404
        /\ DOMAIN table # {}

\* What the step of an update handler came to: the stage it awaits next, or
\* the refusal it answered with.
Outcome(p) ==
    CASE pc'[p] \in {"put_findByIsbn", "patch_findByIsbn"} -> "findByIsbn"
      [] pc'[p] = "update_findById" -> "update"
      [] pc'[p] = "done" /\ resp'[p].status = 400 -> "invalid"
      [] pc'[p] = "done" /\ resp'[p].status = 404 -> "notFound"
      [] pc'[p] = "done" /\ resp'[p].status = 409 -> "conflict"
      [] OTHER -> "other"

\* What the handler of r.method decides at a stage, on table t.
Decided(t, r, stage) ==
    CASE stage = "idle" /\ ~Passes(r) -> "invalid"
      [] stage = "idle" /\ Passes(r) /\ r.method = "PUT" -> put_book(t, sanitized(r))
      [] stage = "idle" /\ Passes(r) /\ r.method = "PATCH" -> patch_book(t, sanitized(r))
      [] stage = "put_findByIsbn" -> put_existingBook(t, sanitized(r))
      [] stage = "patch_findByIsbn" -> patch_existingBook(t, sanitized(r))

\* Every update request of the model, as a PUT and as a PATCH.
Twins ==
    {<<Put(id, b), Patch(id, b)>> :
        id \in RequestIds, b \in ValidUpdateBodies \cup InvalidUpdateBodies}

\* PUT and PATCH run the same rules and leave the same sanitized request.
SameRules ==
    \A tw \in Twins :
        /\ validation(tw[1]) = validation(tw[2])
        /\ sanitized(tw[1]).body = sanitized(tw[2]).body
        /\ sanitized(tw[1]).id = sanitized(tw[2]).id

\* The valid ones, as the handlers read them.
ValidTwins == {<<sanitized(tw[1]), sanitized(tw[2])>> : tw \in {x \in Twins : Passes(x[1])}}

\* On table t, PUT and PATCH decide the same for every valid id and body.
SameDecisions(t) ==
    \A tw \in ValidTwins :
        /\ put_book(t, tw[1]) = patch_book(t, tw[2])
        /\ Truthy(tw[1].body.isbn)
           => put_existingBook(t, tw[1]) = patch_existingBook(t, tw[2])

\* C13: on every table and for every id and body, PUT and PATCH run the same
\* rules and leave the same sanitized body, decide the same after the lookup
\* by id and after the lookup by isbn, and each handler's step does what was
\* decided; from there both run the one Book.update, which answers and writes
\* without regard to the method.  (Every table is the empty one or the result
\* of a step that changed the table.)
C13_PutPatchSame ==
    [][/\ SameRules
       /\ table = <<>> => SameDecisions(table)
       /\ table' # table => SameDecisions(table')
       /\ \A p \in Procs :
            ( /\ Acts(p)
              /\ IsUpdate(input'[p])
              /\ pc[p] \in {"idle", "put_findByIsbn", "patch_findByIsbn"} )
            => Outcome(p) = Decided(table, input'[p], pc[p])]_vars

\* A PATCH has been refused 409 by the lookup by isbn, on a table where the
\* PUT of the same id and body is refused there too.
C13_Witness ==
    \E p \in Procs :
        /\ pc[p] = "done"
        /\ input[p].method = "PATCH"
        /\ resp[p].status = 409
        /\ queries[p] = 2
        /\ put_book(table, sanitized(Put(input[p].id, input[p].body))) = "findByIsbn"
        /\ put_existingBook(table, sanitized(Put(input[p].id, input[p].body))) = "conflict"

\* C14: a create that carries an isbn is answered 201 only if no row holds
\* the isbn when its INSERT runs, and then it adds the one row that holds it;
\* it is answered 409, by the lookup or by the store, exactly when a row holds
\* the isbn, and then adds nothing.  When all creates carry one isbn and only
\* creates run, whatever their interleaving, only the create that finds the
\* table empty is answered 201 and at most one row is ever inserted.
C14_OneCreateWins ==
    [][/\ mix = "race" => Cardinality(created') <= 1
       /\ \A p \in Procs :
            ( /\ Answers(p)
              /\ input'[p].method = "POST"
              /\ Passes(input'[p])
              /\ Truthy(sanitized(input'[p]).body.isbn) )
            => /\ resp'[p].status \in {201, 409}
               /\ resp'[p].status = 409
                    <=> HeldByAny(table, sanitized(input'[p]).body.isbn)
               /\ resp'[p].status = 409 => (table' = table /\ created' = created)
               /\ resp'[p].status = 201
                    => /\ Cardinality(DOMAIN table') = Cardinality(DOMAIN table) + 1
                       /\ Cardinality(created') = Cardinality(created) + 1
                       /\ HeldByAny(table', sanitized(input'[p]).body.isbn)
               /\ mix = "race" => (resp'[p].status = 201 <=> table = <<>>)]_vars

\* Two creates with one isbn both passed the lookup; the second INSERT has
\* been refused by the store and answered 409.
C14_Witness ==
    \E p \in Procs :
        /\ mix = "race"
        /\ pc[p] = "done"
        /\ input[p].method = "POST"
        /\ resp[p].status = 409
        /\ queries[p] = 2
        /\ Cardinality(DOMAIN table) = 1
        /\ Cardinality(created) = 1

\* C15: an update whose row is gone when Book.update runs (its lookup or its
\* UPDATE) is answered 404, and every update answered 200 carries the row as
\* the table now holds it, never null and never nothing.
C15_UpdateAfterDelete ==
    [][\A p \in Procs :
        (Answers(p) /\ IsUpdate(input'[p]) /\ Passes(input'[p]))
        => /\ ( /\ pc[p] \in {"update_findById", "update_exec"}
                /\ ~Exists(table, input'[p].id) )
              => resp'[p].status = 404
           /\ resp'[p].status = 200
              => /\ IsRecord(resp'[p].data)
                 /\ Exists(table', input'[p].id)
                 /\ resp'[p].data = Obj(table'[Val(input'[p].id)])]_vars

\* C16: an update is answered 409 only when a row other than its target holds
\* the isbn of its body; a body carrying the isbn the target holds goes from
\* the lookup by id straight to Book.update, and is not answered 409 by the
\* store while the target still holds it; a body carrying an isbn that
\* another row holds is answered 409.
C16_ConflictOnlyForOtherRow ==
    [][\A p \in Procs :
        ( /\ Acts(p)
          /\ IsUpdate(input'[p])
          /\ Passes(input'[p])
          /\ Truthy(sanitized(input'[p]).body.isbn) )
        => /\ (Answers(p) /\ resp'[p].status = 409)
              => HeldByOther(table, input'[p].id, sanitized(input'[p]).body.isbn)
           /\ ( /\ Exists(table, input'[p].id)
                /\ table[Val(input'[p].id)].isbn = sanitized(input'[p]).body.isbn )
              => /\ ~(Answers(p) /\ resp'[p].status = 409)
                 /\ pc[p] = "idle" => pc'[p] = "update_findById"
           /\ ( /\ Answers(p)
                /\ Exists(table, input'[p].id)
                /\ HeldByOther(table, input'[p].id, sanitized(input'[p]).body.isbn) )
              => resp'[p].status = 409]_vars

====
